---- MODULE Spec2Model ----
(***************************************************************************)
(* A model of the original logic of the fastestimator sources:             *)
(*   - Onehot (op/numpyop/univariate/onehot.py)                            *)
(*   - F1AUCScores and the op lists of the three apphub examples           *)
(*   - PyContainer, HrefFEID and WrapText (util/latex_util.py)             *)
(*   - reshape, as its unit test exercises it (backend/test_reshape.py)    *)
(* Each component has its own specification over the shared variables.     *)
(***************************************************************************)
EXTENDS Integers, Sequences, FiniteSets, TLC

VARIABLES
    \* Onehot
    num_classes,        \* self.num_classes
    label_smoothing,    \* self.label_smoothing, a rational [num, den]
    oh_data,            \* the batch of labels forward is called with
    oh_result,          \* what the forward call did
    \* F1AUCScores
    y_true,             \* self.y_true
    y_pred,             \* self.y_pred
    tr_call,            \* the last handler call and its arguments
    tr_err,             \* the exception the last handler call raised
    tr_out,             \* what the last handler call wrote to its data, and its locals
    epoch_log,          \* history: the <<label, score>> samples on_batch_end was
                        \* given since the latest on_epoch_begin, in arrival
                        \* order, and whether earlier epochs had samples
    \* Pipeline and Network of an example
    example,            \* which get_estimator built the op lists
    mode,               \* the mode of the batch being processed
    batch,              \* the keyed mapping
    pc,                 \* index of the next op in the op list
    step,               \* the number of the batch
    op_err,             \* the error that stopped the run
    dir_arg,            \* the directory argument get_estimator was called with
    traces,             \* the traces of the estimator it returned
    \* latex_util
    lx_args,            \* the class that is instantiated and the arguments
    lx,                 \* the object the constructor call built
    lx_err,             \* the exception the constructor call raised
    packages,           \* the packages set of each class, which its constructor adds to
    wt_out,             \* <<the value WrapText.dumps returned>>, <<>> before
    \* reshape
    rs_x,               \* the tensor reshape is called with
    rs_shape,           \* the shape argument
    rs_out              \* what the reshape call did

vars == <<num_classes, label_smoothing, oh_data, oh_result,
          y_true, y_pred, tr_call, tr_err, tr_out, epoch_log,
          example, mode, batch, pc, step, op_err, dir_arg, traces,
          lx, lx_err, lx_args, packages, wt_out,
          rs_x, rs_shape, rs_out>>

ohVars == <<num_classes, label_smoothing, oh_data, oh_result>>
trVars == <<y_true, y_pred, tr_call, tr_err, tr_out, epoch_log>>
plVars == <<example, mode, batch, pc, step, op_err, dir_arg, traces>>
lxVars == <<lx, lx_err, lx_args, packages, wt_out>>
rsVars == <<rs_x, rs_shape, rs_out>>

(***************************************************************************)
(* Bounds of the model.                                                    *)
(***************************************************************************)
MaxClasses == 3
MaxLen == 2
MaxDim == 3
MaxRank == 2

(***************************************************************************)
(* Helpers: Python's None (as a mode) and the exceptions.                  *)
(***************************************************************************)
None == "None"

NoError == [type |-> "none", msg |-> ""]

AssertionError(msg) == [type |-> "AssertionError", msg |-> msg]

IndexError == [type |-> "IndexError", msg |-> "index out of bounds"]

ValueError(msg) == [type |-> "ValueError", msg |-> msg]

\* Python's `sub in s` on strings
Contains(sub, s) ==
    \E i \in 1..(Len(s) - Len(sub) + 1) : SubSeq(s, i, i + Len(sub) - 1) = sub

(***************************************************************************)
(* Rationals stand for the float values of Onehot.                         *)
(***************************************************************************)
Rat(n, d) == [num |-> n, den |-> d]

RatOne == Rat(1, 1)

RatAdd(a, b) == Rat(a.num * b.den + b.num * a.den, a.den * b.den)

RatSub(a, b) == Rat(a.num * b.den - b.num * a.den, a.den * b.den)

RatDivInt(a, n) == Rat(a.num, a.den * n)

RatEq(a, b) == a.num * b.den = b.num * a.den

(***************************************************************************)
(* Onehot                                                                  *)
(***************************************************************************)
\* numpy dtype names, as str(class_index.dtype) gives them
DTypeInt64 == <<"i", "n", "t", "6", "4">>

DTypeUint8 == <<"u", "i", "n", "t", "8">>

DTypeFloat32 == <<"f", "l", "o", "a", "t", "3", "2">>

DTypeBool == <<"b", "o", "o", "l">>

\* A label as np.array(data) sees it: its dtype and its items, flattened
Label(dtype, items) == [dtype |-> dtype, items |-> items]

LabelValues == (0 - (MaxClasses + 1))..(MaxClasses + 1)

Labels ==
    {Label(DTypeInt64, <<v>>) : v \in LabelValues}
    \cup {Label(DTypeUint8, <<v>>) : v \in {1, MaxClasses}}
    \cup {Label(DTypeInt64, <<>>), Label(DTypeInt64, <<0, 0>>),
          Label(DTypeInt64, <<MaxClasses + 1, 0>>),
          Label(DTypeFloat32, <<0>>), Label(DTypeFloat32, <<MaxClasses + 1>>),
          Label(DTypeFloat32, <<0, 0>>), Label(DTypeBool, <<1>>)}

Smoothings == {Rat(0, 1), Rat(1, 10), Rat(1, 2), Rat(1, 1)}

Batches == UNION {[1..k -> Labels] : k \in 0..MaxLen}

\* np.full((num_classes), fill_value): a vector indexed from 0
Full(n, fill) == [j \in 0..(n - 1) |-> fill]

\* a mutant of SetItem: the class index taken as one-based
SetItem_OneBased(output, n, index, value) ==
    IF 1 <= index /\ index <= n
    THEN [raised |-> FALSE, error |-> NoError,
          out |-> [output EXCEPT ![index - 1] = value]]
    ELSE IF index = 0
    THEN [raised |-> FALSE, error |-> NoError,
          out |-> [output EXCEPT ![n - 1] = value]]
    ELSE [raised |-> TRUE, error |-> IndexError, out |-> <<>>]

\* output[class_index] = value, with Python's indexing of a 1-d array
SetItem(output, n, index, value) ==
    IF 0 <= index /\ index < n
    THEN [raised |-> FALSE, error |-> NoError,
          out |-> [output EXCEPT ![index] = value]]
    ELSE IF 0 - n <= index /\ index < 0
    THEN [raised |-> FALSE, error |-> NoError,
          out |-> [output EXCEPT ![n + index] = value]]
    ELSE [raised |-> TRUE, error |-> IndexError, out |-> <<>>]

\* a mutant of BoundCheckFails: the bound check off by one
BoundCheckFails_OffByOne(class_index, n) == ~(class_index <= n)

\* the assertion of line 40 fails
BoundCheckFails(class_index, n) == ~(class_index < n)

\* a mutant of _apply_onehot: the size check made before the dtype check
_apply_onehot_SizeFirst(n, s, data) ==
    IF ~(Len(data.items) = 1)
    THEN [raised |-> TRUE, error |-> AssertionError("data must have only one item"),
          out |-> <<>>]
    ELSE IF ~Contains(<<"i", "n", "t">>, data.dtype)
    THEN [raised |-> TRUE, error |-> AssertionError(""), out |-> <<>>]
    ELSE LET class_index == data.items[1] IN
         IF BoundCheckFails(class_index, n)
         THEN [raised |-> TRUE,
               error |-> AssertionError("label value should be smaller than num_classes"),
               out |-> <<>>]
         ELSE SetItem(Full(n, RatDivInt(s, n)), n, class_index,
                      RatAdd(RatSub(RatOne, s), RatDivInt(s, n)))

_apply_onehot(n, s, data) ==
    IF ~Contains(<<"i", "n", "t">>, data.dtype)
    THEN [raised |-> TRUE, error |-> AssertionError(""), out |-> <<>>]
    ELSE IF ~(Len(data.items) = 1)
    THEN [raised |-> TRUE, error |-> AssertionError("data must have only one item"),
          out |-> <<>>]
    ELSE LET class_index == data.items[1] IN
         IF BoundCheckFails(class_index, n)
         THEN [raised |-> TRUE,
               error |-> AssertionError("label value should be smaller than num_classes"),
               out |-> <<>>]
         ELSE SetItem(Full(n, RatDivInt(s, n)), n, class_index,
                      RatAdd(RatSub(RatOne, s), RatDivInt(s, n)))

\* the list comprehension of forward: elements in order, the first exception
\* leaves the comprehension and the partial list is dropped
RECURSIVE Comprehension(_, _, _, _, _)
Comprehension(n, s, data, i, acc) ==
    IF i > Len(data)
    THEN [status |-> "returned", error |-> NoError, out |-> acc, built |-> Len(acc)]
    ELSE LET r == _apply_onehot(n, s, data[i]) IN
         IF r.raised
         THEN [status |-> "raised", error |-> r.error, out |-> <<>>, built |-> Len(acc)]
         ELSE Comprehension(n, s, data, i + 1, Append(acc, r.out))

forward(n, s, data) == Comprehension(n, s, data, 1, <<>>)

OnehotIdle == [status |-> "none", error |-> NoError, out |-> <<>>, built |-> 0]

OnehotInit ==
    /\ num_classes \in 1..MaxClasses
    /\ label_smoothing \in Smoothings
    /\ oh_data \in Batches
    /\ oh_result = OnehotIdle

OnehotForward ==
    /\ oh_result.status = "none"
    /\ oh_result' = forward(num_classes, label_smoothing, oh_data)
    /\ UNCHANGED <<num_classes, label_smoothing, oh_data>>

(***************************************************************************)
(* F1AUCScores                                                             *)
(***************************************************************************)
MaxBatch == 2
MaxSamples == 3

\* An array as to_number returns it: one- or two-dimensional
Array(ndim, rows) == [ndim |-> ndim, rows |-> rows]

RECURSIVE Flatten(_)
Flatten(rows) ==
    IF rows = <<>> THEN <<>> ELSE Head(rows) \o Flatten(Tail(rows))

\* ndarray.size
Size(a) == IF a.ndim = 1 THEN Len(a.rows) ELSE Len(Flatten(a.rows))

\* ndarray.ravel(), row-major
Ravel(a) == IF a.ndim = 1 THEN a.rows ELSE Flatten(a.rows)

TrueValues == {0, 1}

Scores == {0, 1, 2}

TrueArrays == {Array(1, r) : r \in UNION {[1..k -> TrueValues] : k \in 0..MaxBatch}}

\* predictions of shape (k, 1), as the discriminator gives them
PredArrays ==
    {Array(2, [i \in 1..Len(r) |-> <<r[i]>>]) :
        r \in UNION {[1..k -> Scores] : k \in 0..MaxBatch}}

NoCall == [name |-> "none", y_true |-> Array(1, <<>>), y_pred |-> Array(1, <<>>)]

NoSamples == [samples |-> <<>>, earlier |-> FALSE]

\* nothing written, and the locals of on_epoch_end unset
NoOutput == [written |-> <<>>, eer_threshold |-> 0, y_pred_class |-> <<>>]

\* output_name, as get_estimator passes it
output_name == <<"auc_score", "f1_score">>

F1AUCScoresInit ==
    /\ y_true = <<>>
    /\ y_pred = <<>>
    /\ tr_call = NoCall
    /\ tr_err = NoError
    /\ tr_out = NoOutput
    /\ epoch_log = NoSamples

\* a mutant of on_epoch_begin: the accumulators are kept
on_epoch_begin_NoReset ==
    /\ tr_err = NoError
    /\ tr_call' = [NoCall EXCEPT !.name = "on_epoch_begin"]
    /\ tr_out' = NoOutput
    /\ epoch_log' = [samples |-> <<>>,
                     earlier |-> epoch_log.earlier \/ epoch_log.samples # <<>>]
    /\ UNCHANGED <<y_true, y_pred, tr_err>>

on_epoch_begin ==
    /\ tr_err = NoError
    /\ y_true' = <<>>
    /\ y_pred' = <<>>
    /\ tr_call' = [NoCall EXCEPT !.name = "on_epoch_begin"]
    /\ tr_out' = NoOutput
    /\ epoch_log' = [samples |-> <<>>,
                     earlier |-> epoch_log.earlier \/ epoch_log.samples # <<>>]
    /\ UNCHANGED tr_err

\* the samples of a batch: label i with score i
Zip(a, b) == [i \in 1..Len(a) |-> <<a[i], b[i]>>]

\* a mutant of BatchEnd: the predictions appended before the assertion
BatchEnd_ExtendFirst(acc_true, acc_pred, b_true, b_pred) ==
    IF ~(Size(b_pred) = Size(b_true))
    THEN [error |-> AssertionError(""), y_true |-> acc_true,
          y_pred |-> acc_pred \o Ravel(b_pred)]
    ELSE [error |-> NoError,
          y_true |-> acc_true \o Ravel(b_true),
          y_pred |-> acc_pred \o Ravel(b_pred)]

\* the accumulators after on_batch_end(data), and the exception it raises
BatchEnd(acc_true, acc_pred, b_true, b_pred) ==
    IF ~(Size(b_pred) = Size(b_true))
    THEN [error |-> AssertionError(""), y_true |-> acc_true, y_pred |-> acc_pred]
    ELSE [error |-> NoError,
          y_true |-> acc_true \o Ravel(b_true),
          y_pred |-> acc_pred \o Ravel(b_pred)]

on_batch_end ==
    /\ tr_err = NoError
    /\ \E b_true \in TrueArrays, b_pred \in PredArrays :
        LET r == BatchEnd(y_true, y_pred, b_true, b_pred) IN
        /\ Len(r.y_true) <= MaxSamples
        /\ Len(r.y_pred) <= MaxSamples
        /\ tr_call' = [name |-> "on_batch_end", y_true |-> b_true, y_pred |-> b_pred]
        /\ y_true' = r.y_true
        /\ y_pred' = r.y_pred
        /\ tr_err' = r.error
        /\ tr_out' = NoOutput
        /\ epoch_log' = IF r.error = NoError
                        THEN [epoch_log EXCEPT
                                !.samples = @ \o Zip(Ravel(b_true), Ravel(b_pred))]
                        ELSE epoch_log

(***************************************************************************)
(* on_epoch_end: sklearn's roc_curve, auc and f1_score and numpy's         *)
(* nanargmin, on the accumulated labels and scores.  fpr and tpr are kept   *)
(* as the counts fps and tps over the totals N and P.                      *)
(***************************************************************************)
Abs(x) == IF x < 0 THEN -x ELSE x

Values(seq) == {seq[i] : i \in 1..Len(seq)}

RECURSIVE SortedDescending(_)
SortedDescending(S) ==
    IF S = {} THEN <<>>
    ELSE LET m == CHOOSE x \in S : \A y \in S : y <= x
         IN  <<m>> \o SortedDescending(S \ {m})

\* the number of samples with a score >= v that are (positive = TRUE) or are
\* not (positive = FALSE) of the positive label
CountAtLeast(labels, scores, pos_label, v, positive) ==
    Cardinality({i \in 1..Len(scores) :
                    scores[i] >= v /\ ((labels[i] = pos_label) <=> positive)})

\* _binary_clf_curve: one point per distinct score, scores decreasing
BinaryClfCurve(labels, scores, pos_label) ==
    LET th == SortedDescending(Values(scores)) IN
    [fps |-> [i \in 1..Len(th) |-> CountAtLeast(labels, scores, pos_label, th[i], FALSE)],
     tps |-> [i \in 1..Len(th) |-> CountAtLeast(labels, scores, pos_label, th[i], TRUE)],
     thresholds |-> th]

\* np.diff(x, 2) at the point i
Diff2(x, i) == x[i + 1] - 2 * x[i] + x[i - 1]

RECURSIVE TakeFrom(_, _, _)
TakeFrom(seq, keep, i) ==
    IF i > Len(seq) THEN <<>>
    ELSE (IF i \in keep THEN <<seq[i]>> ELSE <<>>) \o TakeFrom(seq, keep, i + 1)

\* drop_intermediate: of more than two points, those on a straight segment
\* between their neighbours are dropped
DropIntermediate(c) ==
    LET n == Len(c.fps)
        keep == IF n > 2
                THEN {i \in 1..n : \/ i = 1
                                   \/ i = n
                                   \/ Diff2(c.fps, i) # 0
                                   \/ Diff2(c.tps, i) # 0}
                ELSE 1..n
    IN  [fps |-> TakeFrom(c.fps, keep, 1),
         tps |-> TakeFrom(c.tps, keep, 1),
         thresholds |-> TakeFrom(c.thresholds, keep, 1)]

\* roc_curve(y_true, y_score, pos_label) on a non-empty input: the point
\* (0, 0) is put first, with a threshold above every score (the largest
\* score plus one); fpr[i] = fps[i] / N and tpr[i] = tps[i] / P, which are
\* NaN when N = 0 or P = 0
roc_curve(labels, scores, pos_label) ==
    LET c == DropIntermediate(BinaryClfCurve(labels, scores, pos_label)) IN
    [fps |-> <<0>> \o c.fps,
     tps |-> <<0>> \o c.tps,
     thresholds |-> <<c.thresholds[1] + 1>> \o c.thresholds,
     N |-> c.fps[Len(c.fps)],
     P |-> c.tps[Len(c.tps)]]

IsNaN(roc) == roc.N = 0 \/ roc.P = 0

RECURSIVE TrapezoidSum(_, _)
TrapezoidSum(roc, i) ==
    IF i >= Len(roc.fps) THEN 0
    ELSE (roc.fps[i + 1] - roc.fps[i]) * (roc.tps[i + 1] + roc.tps[i])
            + TrapezoidSum(roc, i + 1)

\* auc(fpr, tpr): the trapezoidal rule
auc(roc) == Rat(TrapezoidSum(roc, 1), 2 * roc.N * roc.P)

\* np.absolute(1 - tpr - fpr), each value times N * P
AbsoluteDeviation(roc) ==
    [i \in 1..Len(roc.fps) |->
        Abs(roc.N * roc.P - roc.tps[i] * roc.N - roc.fps[i] * roc.P)]

RECURSIVE ArgMinFrom_Last(_, _, _)
ArgMinFrom_Last(a, i, best) ==
    IF i > Len(a) THEN best
    ELSE ArgMinFrom_Last(a, i + 1, IF a[i] <= a[best] THEN i ELSE best)

\* a mutant of nanargmin: the last of the smallest values
nanargmin_Last(a) == ArgMinFrom_Last(a, 2, 1)

RECURSIVE ArgMinFrom(_, _, _)
ArgMinFrom(a, i, best) ==
    IF i > Len(a) THEN best
    ELSE ArgMinFrom(a, i + 1, IF a[i] < a[best] THEN i ELSE best)

\* np.nanargmin on values none of which is NaN: the index of the first of
\* the smallest values
nanargmin(a) == ArgMinFrom(a, 2, 1)

\* y_pred_class after the two masked assignments, the second of which reads
\* the array the first one wrote
Threshold(scores, t) ==
    LET first == [i \in 1..Len(scores) |-> IF scores[i] >= t THEN 1 ELSE scores[i]]
    IN  [i \in 1..Len(first) |-> IF first[i] < t THEN 0 ELSE first[i]]

\* f1_score(y_true, y_pred, pos_label): 2 tp / (2 tp + fp + fn), and 0 when
\* the denominator is 0
f1_score(labels, classes, pos_label) ==
    LET I == 1..Len(labels)
        tp == Cardinality({i \in I : labels[i] = pos_label /\ classes[i] = pos_label})
        fp == Cardinality({i \in I : labels[i] # pos_label /\ classes[i] = pos_label})
        fn == Cardinality({i \in I : labels[i] = pos_label /\ classes[i] # pos_label})
    IN  IF 2 * tp + fp + fn = 0 THEN Rat(0, 1) ELSE Rat(2 * tp, 2 * tp + fp + fn)

Written(key, value) == [key |-> key, value |-> value]

\* what on_epoch_end writes, its locals, and the exception it raises:
\* roc_curve raises on lists of different lengths and on empty ones, and
\* nanargmin raises when every value is NaN
EpochEnd(acc_true, acc_pred) ==
    IF Len(acc_true) # Len(acc_pred)
    THEN [error |-> ValueError("inconsistent numbers of samples"), out |-> NoOutput]
    ELSE IF acc_true = <<>>
    THEN [error |-> IndexError, out |-> NoOutput]
    ELSE LET roc == roc_curve(acc_true, acc_pred, 1) IN
         IF IsNaN(roc)
         THEN [error |-> ValueError("All-NaN slice encountered"), out |-> NoOutput]
         ELSE LET roc_auc == auc(roc)
                  eer_threshold == roc.thresholds[nanargmin(AbsoluteDeviation(roc))]
                  y_pred_class == Threshold(acc_pred, eer_threshold)
                  f_score == f1_score(acc_true, y_pred_class, 0)
              IN  [error |-> NoError,
                   out |-> [written |-> <<Written(output_name[1], roc_auc),
                                          Written(output_name[2], f_score)>>,
                            eer_threshold |-> eer_threshold,
                            y_pred_class |-> y_pred_class]]

on_epoch_end ==
    /\ tr_err = NoError
    /\ tr_call' = [NoCall EXCEPT !.name = "on_epoch_end"]
    /\ tr_out' = EpochEnd(y_true, y_pred).out
    /\ tr_err' = EpochEnd(y_true, y_pred).error
    /\ UNCHANGED <<y_true, y_pred, epoch_log>>

(***************************************************************************)
(* The op lists of the three examples, and their execution on the keyed    *)
(* mapping.                                                                *)
(***************************************************************************)
MaxSteps == 2

Op(name, inputs, outputs, opmode) ==
    [name |-> name, inputs |-> inputs, outputs |-> outputs, mode |-> opmode]

\* UpdateOp(model, loss_name): reads its loss key and writes no key; no mode
\* is given where it is built
UpdateOp(loss_name) == Op("UpdateOp", <<loss_name>>, <<>>, None)

\* a mutant of ALOCC_PipelineOps: the noise written over x
ALOCC_PipelineOps_NoiseInPlace ==
    << Op("ExpandDims", <<"x">>, <<"x">>, None),
       Op("Normalize", <<"x">>, <<"x">>, None),
       Op("LambdaOp", <<"x">>, <<"x">>, "train"),
       Op("ChannelTranspose", <<"x">>, <<"x">>, None),
       Op("ChannelTranspose", <<"x_w_noise">>, <<"x_w_noise">>, "train") >>

ALOCC_PipelineOps ==
    << Op("ExpandDims", <<"x">>, <<"x">>, None),
       Op("Normalize", <<"x">>, <<"x">>, None),
       Op("LambdaOp", <<"x">>, <<"x_w_noise">>, "train"),
       Op("ChannelTranspose", <<"x">>, <<"x">>, None),
       Op("ChannelTranspose", <<"x_w_noise">>, <<"x_w_noise">>, "train") >>

\* a mutant of ALOCC_NetworkOps: the eval reconstruction left out
ALOCC_NetworkOps_NoEval ==
    << Op("ModelOp", <<"x_w_noise">>, <<"x_fake">>, "train"),
       Op("ModelOp", <<"x_fake">>, <<"fake_score">>, None),
       Op("ModelOp", <<"x">>, <<"true_score">>, None),
       Op("RLoss", <<"fake_score", "x_fake", "x">>, <<"rloss">>, None),
       UpdateOp("rloss"),
       Op("DLoss", <<"true_score", "fake_score">>, <<"dloss">>, None),
       UpdateOp("dloss") >>

ALOCC_NetworkOps ==
    << Op("ModelOp", <<"x_w_noise">>, <<"x_fake">>, "train"),
       Op("ModelOp", <<"x">>, <<"x_fake">>, "eval"),
       Op("ModelOp", <<"x_fake">>, <<"fake_score">>, None),
       Op("ModelOp", <<"x">>, <<"true_score">>, None),
       Op("RLoss", <<"fake_score", "x_fake", "x">>, <<"rloss">>, None),
       UpdateOp("rloss"),
       Op("DLoss", <<"true_score", "fake_score">>, <<"dloss">>, None),
       UpdateOp("dloss") >>

CVAE_TF_PipelineOps ==
    << Op("ExpandDims", <<"x">>, <<"x">>, None),
       Op("Minmax", <<"x">>, <<"x">>, None),
       Op("Binarize", <<"x">>, <<"x">>, None) >>

CVAE_TF_NetworkOps ==
    << Op("ModelOp", <<"x">>, <<"meanlogvar">>, None),
       Op("SplitOp", <<"meanlogvar">>, <<"mean", "logvar">>, None),
       Op("ReparameterizepOp", <<"mean", "logvar">>, <<"z">>, None),
       Op("ModelOp", <<"z">>, <<"x_logit">>, None),
       Op("CrossEntropy", <<"x_logit", "x">>, <<"cross_entropy">>, None),
       Op("CVAELoss", <<"cross_entropy", "mean", "logvar", "z">>, <<"loss">>, None),
       UpdateOp("loss"),
       UpdateOp("loss") >>

CVAE_Torch_PipelineOps ==
    << Op("ExpandDims", <<"x">>, <<"x">>, None),
       Op("Minmax", <<"x">>, <<"x">>, None),
       Op("Binarize", <<"x">>, <<"x">>, None) >>

CVAE_Torch_NetworkOps ==
    << Op("ModelOp", <<"x">>, <<"meanlogvar">>, None),
       Op("SplitOp", <<"meanlogvar">>, <<"mean", "logvar">>, None),
       Op("ReparameterizepOp", <<"mean", "logvar">>, <<"z">>, None),
       Op("ModelOp", <<"z">>, <<"x_logit">>, None),
       Op("CrossEntropy", <<"x_logit", "x">>, <<"cross_entropy">>, None),
       Op("CVAELoss", <<"cross_entropy", "mean", "logvar", "z">>, <<"loss">>, None),
       UpdateOp("loss"),
       UpdateOp("loss") >>

Examples == {"alocc_torch", "cvae_tf", "cvae_torch"}

\* a trace as get_estimator builds it; None for an argument that is not given
F1AUCScoresTrace(true_key, pred_key, trace_mode, names) ==
    [name |-> "F1AUCScores", inputs |-> <<true_key, pred_key>>, outputs |-> names,
     mode |-> trace_mode, model |-> None, save_dir |-> None, metric |-> None,
     save_best_mode |-> None]

BestModelSaver(model, save_dir, metric, save_best_mode) ==
    [name |-> "BestModelSaver", inputs |-> <<>>, outputs |-> <<>>, mode |-> None,
     model |-> model, save_dir |-> save_dir, metric |-> metric,
     save_best_mode |-> save_best_mode]

\* the traces of get_estimator(..., save_dir) of ALOCC
ALOCC_Traces(save_dir) ==
    <<F1AUCScoresTrace("y", "fake_score", "eval", output_name),
      BestModelSaver("recon_model", save_dir, "f1_score", "max"),
      BestModelSaver("disc_model", save_dir, "f1_score", "max")>>

\* the traces of get_estimator(..., model_dir) of CVAE in TensorFlow
CVAE_TF_Traces(model_dir) ==
    <<BestModelSaver("encode_model", "encode", None, None),
      BestModelSaver("decode_model", "decode", None, None)>>

\* the traces of get_estimator(..., save_dir) of CVAE in PyTorch
CVAE_Torch_Traces(save_dir) ==
    <<BestModelSaver("encode_model", save_dir, None, None),
      BestModelSaver("decode_model", save_dir, None, None)>>

Traces(ex, dir) ==
    IF ex = "alocc_torch" THEN ALOCC_Traces(dir)
    ELSE IF ex = "cvae_tf" THEN CVAE_TF_Traces(dir)
    ELSE CVAE_Torch_Traces(dir)

\* values of the directory argument: a directory as tempfile.mkdtemp() names
\* it (the default), and directories a caller names
Directories == {"/tmp/tmpq1w2e3", "/home/user/models", "encode"}

\* pipeline ops, then network ops, in list order
Ops(ex) ==
    IF ex = "alocc_torch" THEN ALOCC_PipelineOps \o ALOCC_NetworkOps
    ELSE IF ex = "cvae_tf" THEN CVAE_TF_PipelineOps \o CVAE_TF_NetworkOps
    ELSE CVAE_Torch_PipelineOps \o CVAE_Torch_NetworkOps

\* the modes the Pipeline of the example is given a dataset for
ModesWithData(ex) ==
    IF ex = "alocc_torch" THEN {"train", "eval"}
    ELSE IF ex = "cvae_tf" THEN {"train", "eval", "test"}
    ELSE {"train"}

DatasetKeys == {"x", "y"}

Range(seq) == {seq[i] : i \in 1..Len(seq)}

\* a value of the mapping: the batch it belongs to and the op that wrote it
\* last (0: the dataset)
Value(s, writer) == [step |-> s, writer |-> writer]

FreshBatch(s) == [k \in DatasetKeys |-> Value(s, 0)]

\* an op of mode None runs in every mode, another op in its own mode only
Executes(op, m) == op.mode = None \/ op.mode = m

Write(b, keys, v) ==
    [k \in (DOMAIN b) \cup keys |-> IF k \in keys THEN v ELSE b[k]]

KeyError == [type |-> "KeyError", msg |-> "missing input key"]

PipelineInit ==
    /\ example \in Examples
    /\ mode \in ModesWithData(example)
    /\ step = 1
    /\ batch = FreshBatch(1)
    /\ pc = 1
    /\ op_err = NoError
    /\ dir_arg \in Directories
    /\ traces = Traces(example, dir_arg)

ExecOp ==
    /\ example \in Examples
    /\ op_err = NoError
    /\ pc <= Len(Ops(example))
    /\ LET op == Ops(example)[pc] IN
        IF ~Executes(op, mode)
        THEN /\ pc' = pc + 1
             /\ UNCHANGED <<batch, op_err>>
        ELSE IF ~(Range(op.inputs) \subseteq DOMAIN batch)
        THEN /\ op_err' = KeyError
             /\ UNCHANGED <<batch, pc>>
        ELSE /\ batch' = Write(batch, Range(op.outputs), Value(step, pc))
             /\ pc' = pc + 1
             /\ UNCHANGED op_err
    /\ UNCHANGED <<example, mode, step, dir_arg, traces>>

NextBatch ==
    /\ example \in Examples
    /\ op_err = NoError
    /\ pc = Len(Ops(example)) + 1
    /\ step < MaxSteps
    /\ \E m \in ModesWithData(example) : mode' = m
    /\ step' = step + 1
    /\ batch' = FreshBatch(step + 1)
    /\ pc' = 1
    /\ UNCHANGED <<example, op_err, dir_arg, traces>>

(***************************************************************************)
(* latex_util: PyContainer, HrefFEID, WrapText.  A text is a sequence of   *)
(* tokens; an item of a container is a record of its kind and its value.   *)
(***************************************************************************)
MaxElems == 3
MaxThreshold == 3

\* pylatex.NoEscape(text): a text that is dumped as it is
NoEscape(text) == [kind |-> "NoEscape", v |-> text]

\* a plain Python str, escaped when it is dumped
PyStr(text) == [kind |-> "str", v |-> text]

ContainerList(data) == [kind |-> "ContainerList", v |-> data]

\* pylatex.lists.Enumerate with the items add_item gave it
Enumerate(items) == [kind |-> "Enumerate", v |-> items]

FEID(id) == [kind |-> "FEID", v |-> id]

\* pylatex's table of special characters
EscapeChar(c) ==
    CASE c = "&" -> "\\&"
      [] c = "%" -> "\\%"
      [] c = "$" -> "\\$"
      [] c = "#" -> "\\#"
      [] c = "_" -> "\\_"
      [] c = "{" -> "\\{"
      [] c = "}" -> "\\}"
      [] c = "~" -> "\\textasciitilde{}"
      [] c = "^" -> "\\^{}"
      [] c = "\\" -> "\\textbackslash{}"
      [] c = "\n" -> "\\newline%\n"
      [] c = "-" -> "{-}"
      [] c = "[" -> "{[}"
      [] c = "]" -> "{]}"
      [] OTHER -> c

EscapeText(text) == [i \in 1..Len(text) |-> EscapeChar(text[i])]

\* pylatex.escape_latex: a NoEscape is returned as it is
escape_latex(item) ==
    IF item.kind = "NoEscape" THEN item ELSE NoEscape(EscapeText(item.v))

\* pylatex.utils.bold(s), which escapes s first
bold(item) == NoEscape(<<"\\textbf{">> \o escape_latex(item).v \o <<"}">>)

\* the classes isinstance finds an object of type t to be an instance of
Mro(t) ==
    CASE t = "OrderedDict" -> {"OrderedDict", "dict"}
      [] t = "bool" -> {"bool", "int"}
      [] OTHER -> {t}

IsInstance(t, classes) == Mro(t) \cap classes # {}

\* Optional[int]
NoneInt == [is_none |-> TRUE, value |-> 0]

SomeInt(v) == [is_none |-> FALSE, value |-> v]

\* bool(truncate)
Truthy(opt) == ~opt.is_none /\ opt.value # 0

\* Python's seq[:stop]: stop None keeps all, a negative stop counts from the end
Slice(seq, stop) ==
    IF stop.is_none THEN seq
    ELSE IF stop.value >= 0
         THEN SubSeq(seq, 1, IF stop.value < Len(seq) THEN stop.value ELSE Len(seq))
         ELSE SubSeq(seq, 1, IF Len(seq) + stop.value > 0
                             THEN Len(seq) + stop.value ELSE 0)

NoObject == [class |-> "none"]

NoArgs == [class |-> "none"]

Atoms == {PyStr(<<"a">>), PyStr(<<"b">>), PyStr(<<"c">>), PyStr(<<"d">>)}

SeqsUpTo(S, n) == UNION {[1..k -> S] : k \in 0..n}

IsInjective(seq) == \A i, j \in 1..Len(seq) : seq[i] = seq[j] => i = j

\* a Python value given as data: its type and its elements in iteration order
\* (key, value pairs for a dict)
PyValue(type, elems) == [type |-> type, elems |-> elems]

\* the (key, value) pairs of the dicts
Entries ==
    {<<PyStr(<<"a">>), PyStr(<<"v">>)>>, <<PyStr(<<"b">>), PyStr(<<"w">>)>>,
     <<PyStr(<<"c">>), PyStr(<<"v">>)>>, <<PyStr(<<"d">>), PyStr(<<"a">>)>>}

ContainerValues ==
    {PyValue(t, e) : t \in {"list", "tuple"},
                     e \in SeqsUpTo({PyStr(<<"a">>), PyStr(<<"b">>)}, MaxElems)}
    \cup {PyValue("set", e) : e \in {q \in SeqsUpTo(Atoms, MaxElems) : IsInjective(q)}}
    \cup {PyValue(t, e) : t \in {"dict", "OrderedDict"},
            e \in {q \in SeqsUpTo(Entries, MaxElems) : IsInjective(q)}}

OtherValues ==
    {PyValue(t, e) : t \in {"frozenset", "str", "int", "NoneType"},
                     e \in SeqsUpTo(Atoms, 1)}

Truncates == {NoneInt} \cup {SomeInt(t) : t \in (0 - 1)..(MaxElems + 1)}

open_char(data) ==
    IF IsInstance(data.type, {"list"}) THEN <<"[">>
    ELSE IF IsInstance(data.type, {"tuple"}) THEN <<"(">>
    ELSE <<"\\{">>

close_char(data) ==
    IF IsInstance(data.type, {"list"}) THEN <<"]">>
    ELSE IF IsInstance(data.type, {"tuple"}) THEN <<")">>
    ELSE <<"\\}">>

\* the items the two loops add to ltx
LoopItems(data, truncate) ==
    LET kept == Slice(data.elems, truncate) IN
    IF IsInstance(data.type, {"dict"})
    THEN [i \in 1..Len(kept) |->
            ContainerList(<<kept[i][1], PyStr(<<":", " ">>), kept[i][2]>>)]
    ELSE kept

\* a mutant of EllipsisItems: the ellipsis also added when len(data) = truncate
EllipsisItems_AtLeast(data, truncate) ==
    IF Truthy(truncate) /\ Len(data.elems) >= truncate.value
    THEN <<NoEscape(<<"\\ldots">>)>>
    ELSE <<>>

\* the item added after the loops
EllipsisItems(data, truncate) ==
    IF Truthy(truncate) /\ Len(data.elems) > truncate.value
    THEN <<NoEscape(<<"\\ldots">>)>>
    ELSE <<>>

\* a mutant of AcceptsData: a frozenset accepted too
AcceptsData_Frozenset(data) ==
    IsInstance(data.type, {"list", "tuple", "set", "frozenset", "dict"})

\* the isinstance test of the assertion of line 51
AcceptsData(data) == IsInstance(data.type, {"list", "tuple", "set", "dict"})

PyContainer(data, truncate) ==
    IF ~AcceptsData(data)
    THEN [error |-> AssertionError("Unacceptable data type for PyContainer"),
          obj |-> NoObject]
    ELSE [error |-> NoError,
          obj |-> [class |-> "PyContainer",
                   raw_input |-> data,
                   data |-> << NoEscape(open_char(data)),
                               Enumerate(LoopItems(data, truncate)
                                         \o EllipsisItems(data, truncate)),
                               NoEscape(close_char(data)) >>]]

PyContainerArgs ==
    {[class |-> "PyContainer", data |-> d, truncate |-> t] :
        d \in ContainerValues \cup OtherValues, t \in Truncates}

\* no object is being built and none was built
NotStarted == lx.class = "none" /\ lx_err = NoError

PyContainerInit ==
    /\ lx_args.class = "PyContainer"
    /\ NotStarted
    /\ LET r == PyContainer(lx_args.data, lx_args.truncate) IN
        /\ packages' = [packages EXCEPT !["PyContainer"] = @ \cup {"enumitem"}]
        /\ lx' = r.obj
        /\ lx_err' = r.error
    /\ UNCHANGED <<lx_args, wt_out>>

Names == {<<>>, <<"a">>, <<"a", "_", "b">>, <<"x", "-">>}

LinkPrefixes == {<<"t", "b", "l">>, <<"f", "_">>}

FEIDs == {FEID(<<"A", "0">>), FEID(<<"B", "1">>)}

\* a mutant of LinkText: the separator added whenever the id is
LinkText_SeparatorAlways(fe_id, name, id_in_name, bold_name) ==
    (IF id_in_name THEN <<fe_id, PyStr(<<":", " ">>)>> ELSE <<>>)
    \o (IF name # <<>>
        THEN <<IF bold_name THEN bold(escape_latex(PyStr(name)))
               ELSE escape_latex(PyStr(name))>>
        ELSE <<>>)

\* the items between the opening and the closing
LinkText(fe_id, name, id_in_name, bold_name) ==
    (IF id_in_name
     THEN <<fe_id>> \o (IF name # <<>> THEN <<PyStr(<<":", " ">>)>> ELSE <<>>)
     ELSE <<>>)
    \o (IF name # <<>>
        THEN <<IF bold_name THEN bold(escape_latex(PyStr(name)))
               ELSE escape_latex(PyStr(name))>>
        ELSE <<>>)

\* the target of the hyperref: the two items after \hyperref[
LinkTarget(fe_id, link_prefix) ==
    <<escape_latex(PyStr(link_prefix \o <<":">>)), fe_id>>

HrefFEID(fe_id, name, link_prefix, id_in_name, bold_name) ==
    [class |-> "HrefFEID",
     fe_id |-> fe_id,
     name |-> name,
     data |-> <<NoEscape(<<"\\hyperref[">>)>>
              \o LinkTarget(fe_id, link_prefix)
              \o <<NoEscape(<<"]{\\textcolor{blue}{\\uline{">>)>>
              \o LinkText(fe_id, name, id_in_name, bold_name)
              \o <<NoEscape(<<"}}}">>)>>]

HrefFEIDArgs ==
    {[class |-> "HrefFEID", fe_id |-> f, name |-> n, link_prefix |-> p,
      id_in_name |-> i, bold_name |-> b] :
        f \in FEIDs, n \in Names, p \in LinkPrefixes, i \in BOOLEAN, b \in BOOLEAN}

HrefFEIDInit ==
    /\ lx_args.class = "HrefFEID"
    /\ NotStarted
    /\ packages' = [packages EXCEPT
                      !["HrefFEID"] = @ \cup {"hyperref", "ulem", "xcolor"}]
    /\ lx' = HrefFEID(lx_args.fe_id, lx_args.name, lx_args.link_prefix,
                      lx_args.id_in_name, lx_args.bold_name)
    /\ UNCHANGED <<lx_args, lx_err, wt_out>>

\* a value given to WrapText: a str (text), an int or bool (int), a float
\* (int, in tenths), or something else
Scalar(type, text, int) == [type |-> type, text |-> text, int |-> int]

Texts == SeqsUpTo({"a", "-"}, MaxThreshold + 1)

ScalarValues ==
    {Scalar("str", t, 0) : t \in Texts}
    \cup {Scalar("int", <<>>, i) : i \in {0 - 12, 0, 7, 123, 12345}}
    \cup {Scalar("float", <<>>, i) : i \in {0 - 5, 5, 125, 30}}
    \cup {Scalar("bool", <<>>, i) : i \in {0, 1}}
    \cup {Scalar("NoneType", <<>>, 0), Scalar("list", <<>>, 0), Scalar("bytes", <<"a">>, 0)}

Thresholds == (0 - 1)..MaxThreshold

Digit(d) == <<"0", "1", "2", "3", "4", "5", "6", "7", "8", "9">>[d + 1]

RECURSIVE NatStr(_)
NatStr(n) == IF n < 10 THEN <<Digit(n)>> ELSE NatStr(n \div 10) \o <<Digit(n % 10)>>

IntStr(n) == IF n < 0 THEN <<"-">> \o NatStr(0 - n) ELSE NatStr(n)

\* str of a float with one decimal, given in tenths
FloatStr(t) ==
    LET a == IF t < 0 THEN 0 - t ELSE t IN
    (IF t < 0 THEN <<"-">> ELSE <<>>) \o NatStr(a \div 10) \o <<".", Digit(a % 10)>>

\* str(data)
Str(data) ==
    CASE data.type = "str" -> data.text
      [] data.type = "int" -> IntStr(data.int)
      [] data.type = "float" -> FloatStr(data.int)
      [] data.type = "bool" ->
            IF data.int = 1 THEN <<"T", "r", "u", "e">> ELSE <<"F", "a", "l", "s", "e">>
      [] OTHER -> data.text

AcceptsScalar(data) == IsInstance(data.type, {"str", "int", "float"})

WrapText(data, threshold) ==
    IF ~AcceptsScalar(data)
    THEN [error |-> AssertionError("the self.data type needs to be str, int, float"),
          obj |-> NoObject]
    ELSE [error |-> NoError,
          obj |-> [class |-> "WrapText", threshold |-> threshold, data |-> Str(data)]]

WrapTextArgs ==
    {[class |-> "WrapText", data |-> d, threshold |-> t] :
        d \in ScalarValues, t \in Thresholds}

WrapTextInit ==
    /\ lx_args.class = "WrapText"
    /\ NotStarted
    /\ LET r == WrapText(lx_args.data, lx_args.threshold) IN
        /\ lx' = r.obj
        /\ lx_err' = r.error
    /\ UNCHANGED <<lx_args, packages, wt_out>>

\* a mutant of IsLong: wrapped from the threshold on
IsLong_AtLeast(obj) == Len(obj.data) >= obj.threshold

\* the test of line 178
IsLong(obj) == Len(obj.data) > obj.threshold

dumps(obj) ==
    IF IsLong(obj)
    THEN NoEscape(<<"\\seqsplit{">> \o escape_latex(PyStr(obj.data)).v \o <<"}">>)
    ELSE escape_latex(PyStr(obj.data))

WrapTextDumps ==
    /\ lx.class = "WrapText"
    /\ wt_out = <<>>
    /\ wt_out' = <<dumps(lx)>>
    /\ UNCHANGED <<lx, lx_err, lx_args, packages>>

(***************************************************************************)
(* reshape(tensor, shape) of fastestimator.backend, which the unit test    *)
(* calls on a NumPy array, a TensorFlow tensor and a PyTorch tensor.       *)
(***************************************************************************)
Backends == {"numpy", "tensorflow", "torch"}

\* a tensor of a backend: its shape and its elements in row-major order
Tensor(backend, shape, data) == [backend |-> backend, shape |-> shape, data |-> data]

RECURSIVE Prod(_)
Prod(shape) == IF shape = <<>> THEN 1 ELSE Head(shape) * Prod(Tail(shape))

\* the number of elements of a tensor
NumElements(tensor) == Len(tensor.data)

\* the fixtures of setUpClass
test_np == Tensor("numpy", <<2, 2>>, <<1, 2, 3, 3>>)

test_tf == Tensor("tensorflow", <<3, 2>>, <<1, 1, 2, -3, 4, 1>>)

test_torch == Tensor("torch", <<3, 2>>, <<1, 1, 2, -3, 4, 1>>)

Shapes == UNION {[1..k -> 1..MaxDim] : k \in 1..MaxRank}

\* the tensors the model calls reshape with: of each backend and shape, with
\* distinct elements, and the three fixtures
Tensors ==
    {Tensor(b, s, [i \in 1..Prod(s) |-> i]) : b \in Backends, s \in Shapes}
        \cup {test_np, test_tf, test_torch}

NotReshaped == [status |-> "none", error |-> NoError, value |-> Tensor("none", <<>>, <<>>)]

reshape_KeepShape(tensor, shape) ==
    IF Prod(shape) = NumElements(tensor)
    THEN [status |-> "returned", error |-> NoError, value |-> tensor]
    ELSE [status |-> "raised", error |-> ValueError("cannot reshape"), value |-> NotReshaped.value]

\* the call goes to the reshape of the tensor's own library, which keeps the
\* elements in order, gives them the new shape, and raises when the shape
\* holds another number of elements
reshape(tensor, shape) ==
    IF Prod(shape) = NumElements(tensor)
    THEN [status |-> "returned", error |-> NoError,
          value |-> Tensor(tensor.backend, shape, tensor.data)]
    ELSE [status |-> "raised", error |-> ValueError("cannot reshape"), value |-> NotReshaped.value]

ReshapeInit ==
    /\ rs_x \in Tensors
    /\ rs_shape \in Shapes
    /\ rs_out = NotReshaped

Reshape ==
    /\ rs_out.status = "none"
    /\ rs_out' = reshape(rs_x, rs_shape)
    /\ UNCHANGED <<rs_x, rs_shape>>

(***************************************************************************)
(* The specifications: one per component, the other components idle.       *)
(***************************************************************************)
OnehotIdleState ==
    /\ num_classes = 1
    /\ label_smoothing = Rat(0, 1)
    /\ oh_data = <<>>
    /\ oh_result = [OnehotIdle EXCEPT !.status = "idle"]

\* no F1AUCScores was constructed
TraceIdleState ==
    /\ y_true = <<>>
    /\ y_pred = <<>>
    /\ tr_call = NoCall
    /\ tr_err = [type |-> "absent", msg |-> ""]
    /\ tr_out = NoOutput
    /\ epoch_log = NoSamples

PipelineIdleState ==
    /\ example = "none"
    /\ mode = None
    /\ step = 0
    /\ batch = <<>>
    /\ pc = 0
    /\ op_err = NoError
    /\ dir_arg = None
    /\ traces = <<>>

\* the packages of the classes when none was instantiated before, and when
\* each was
PackagesStates ==
    {[c \in {"PyContainer", "HrefFEID"} |-> {}],
     [c \in {"PyContainer", "HrefFEID"} |->
        IF c = "PyContainer" THEN {"enumitem"} ELSE {"hyperref", "ulem", "xcolor"}]}

LatexInit ==
    /\ \/ lx_args \in PyContainerArgs
       \/ lx_args \in HrefFEIDArgs
       \/ lx_args \in WrapTextArgs
    /\ packages \in PackagesStates
    /\ lx = NoObject
    /\ lx_err = NoError
    /\ wt_out = <<>>

LatexIdleState ==
    /\ lx_args = NoArgs
    /\ packages = [c \in {"PyContainer", "HrefFEID"} |-> {}]
    /\ lx = NoObject
    /\ lx_err = NoError
    /\ wt_out = <<>>

ReshapeIdleState ==
    /\ rs_x = Tensor("none", <<>>, <<>>)
    /\ rs_shape = <<>>
    /\ rs_out = [NotReshaped EXCEPT !.status = "idle"]

InitOnehot ==
    OnehotInit /\ TraceIdleState /\ PipelineIdleState /\ LatexIdleState /\ ReshapeIdleState

NextOnehot == OnehotForward /\ UNCHANGED <<trVars, plVars, lxVars, rsVars>>

SpecOnehot == InitOnehot /\ [][NextOnehot]_vars

InitTrace ==
    OnehotIdleState /\ F1AUCScoresInit /\ PipelineIdleState /\ LatexIdleState /\ ReshapeIdleState

NextTrace ==
    \/ on_epoch_begin /\ UNCHANGED <<ohVars, plVars, lxVars, rsVars>>
    \/ on_batch_end /\ UNCHANGED <<ohVars, plVars, lxVars, rsVars>>
    \/ on_epoch_end /\ UNCHANGED <<ohVars, plVars, lxVars, rsVars>>

SpecTrace == InitTrace /\ [][NextTrace]_vars

InitPipeline ==
    OnehotIdleState /\ TraceIdleState /\ PipelineInit /\ LatexIdleState /\ ReshapeIdleState

NextPipeline ==
    \/ ExecOp /\ UNCHANGED <<ohVars, trVars, lxVars, rsVars>>
    \/ NextBatch /\ UNCHANGED <<ohVars, trVars, lxVars, rsVars>>

SpecPipeline == InitPipeline /\ [][NextPipeline]_vars

InitLatex ==
    OnehotIdleState /\ TraceIdleState /\ PipelineIdleState /\ LatexInit /\ ReshapeIdleState

NextLatex ==
    \/ PyContainerInit /\ UNCHANGED <<ohVars, trVars, plVars, rsVars>>
    \/ HrefFEIDInit /\ UNCHANGED <<ohVars, trVars, plVars, rsVars>>
    \/ WrapTextInit /\ UNCHANGED <<ohVars, trVars, plVars, rsVars>>
    \/ WrapTextDumps /\ UNCHANGED <<ohVars, trVars, plVars, rsVars>>

SpecLatex == InitLatex /\ [][NextLatex]_vars

InitReshape ==
    OnehotIdleState /\ TraceIdleState /\ PipelineIdleState /\ LatexIdleState /\ ReshapeInit

NextReshape == Reshape /\ UNCHANGED <<ohVars, trVars, plVars, lxVars>>

SpecReshape == InitReshape /\ [][NextReshape]_vars

Init == InitOnehot \/ InitTrace \/ InitPipeline \/ InitLatex \/ InitReshape

Next == NextOnehot \/ NextTrace \/ NextPipeline \/ NextLatex \/ NextReshape

Spec == Init /\ [][Next]_vars

(***************************************************************************)
(* Properties of Onehot, under SpecOnehot.                                 *)
(***************************************************************************)
\* the label is one integer
IsIntegerLabel(l) == l.dtype \in {DTypeInt64, DTypeUint8} /\ Len(l.items) = 1

\* the label is one integer c with 0 <= c < n
IsValidLabel(l, n) == IsIntegerLabel(l) /\ 0 <= l.items[1] /\ l.items[1] < n

\* every label before position i is valid
ValidBefore(data, i, n) == \A h \in 1..(i - 1) : IsValidLabel(data[h], n)

\* v is the value 1 - s + s/n
IsHotValue(v, s, n) == v.num * (s.den * n) = v.den * (s.den * n - s.num * n + s.num)

\* v is the value s/n
IsColdValue(v, s, n) == v.num * (s.den * n) = v.den * s.num

OnehotCalled == oh_result.status \in {"returned", "raised"}

\* C1: for a list of valid labels (integers c with 0 <= c < num_classes),
\* forward returns a list of the same length and order whose i-th element is a
\* vector of length num_classes that holds 1 - s + s/n at index c_i and s/n at
\* every other index.
C1_OnehotValues ==
    (OnehotCalled /\ \A i \in 1..Len(oh_data) : IsValidLabel(oh_data[i], num_classes))
    => /\ oh_result.status = "returned"
       /\ Len(oh_result.out) = Len(oh_data)
       /\ \A i \in 1..Len(oh_data) :
            /\ DOMAIN oh_result.out[i] = 0..(num_classes - 1)
            /\ \A j \in 0..(num_classes - 1) :
                 IF j = oh_data[i].items[1]
                 THEN IsHotValue(oh_result.out[i][j], label_smoothing, num_classes)
                 ELSE IsColdValue(oh_result.out[i][j], label_smoothing, num_classes)

\* C1 witness: two different valid labels were encoded with smoothing 1/10
C1_Witness ==
    /\ oh_result.status = "returned"
    /\ Len(oh_data) = 2
    /\ IsValidLabel(oh_data[1], num_classes)
    /\ IsValidLabel(oh_data[2], num_classes)
    /\ oh_data[1].items[1] = 2
    /\ oh_data[2].items[1] = 0
    /\ label_smoothing = Rat(1, 10)
    /\ Len(oh_result.out) = 2

BoundMessage == "label value should be smaller than num_classes"

\* C2: when the batch holds an integer label c >= num_classes, forward raises
\* and returns no output; when the labels before it are valid, the error is
\* the assertion error 'label value should be smaller than num_classes', raised
\* at that label, and the vectors of the valid labels before it are not
\* returned.
C2_BoundAssertion ==
    \A i \in 1..Len(oh_data) :
        (OnehotCalled /\ IsIntegerLabel(oh_data[i]) /\ oh_data[i].items[1] >= num_classes)
        => /\ oh_result.status = "raised"
           /\ oh_result.out = <<>>
           /\ ValidBefore(oh_data, i, num_classes)
                => /\ oh_result.error = AssertionError(BoundMessage)
                   /\ oh_result.built = i - 1

\* C2 witness: a valid label, then a label equal to num_classes; the call
\* raised the bound assertion after one vector was built and returned nothing
C2_Witness ==
    /\ Len(oh_data) = 2
    /\ IsValidLabel(oh_data[1], num_classes)
    /\ IsIntegerLabel(oh_data[2])
    /\ oh_data[2].items[1] = num_classes
    /\ oh_result.status = "raised"
    /\ oh_result.error = AssertionError(BoundMessage)
    /\ oh_result.built = 1
    /\ oh_result.out = <<>>

\* C6: the first label of the batch that is not valid raises, with no vector
\* built for it: the dtype assertion when its dtype is not an integer type
\* (whatever its size), else the size assertion when it does not hold exactly
\* one item (whatever its items), else the bound assertion when its item is
\* not smaller than num_classes.
C6_AssertionOrder ==
    \A i \in 1..Len(oh_data) :
        (OnehotCalled /\ ValidBefore(oh_data, i, num_classes))
        => LET l == oh_data[i] IN
           IF l.dtype \notin {DTypeInt64, DTypeUint8}
           THEN /\ oh_result.status = "raised"
                /\ oh_result.error = AssertionError("")
                /\ oh_result.built = i - 1
                /\ oh_result.out = <<>>
           ELSE IF Len(l.items) # 1
           THEN /\ oh_result.status = "raised"
                /\ oh_result.error = AssertionError("data must have only one item")
                /\ oh_result.built = i - 1
                /\ oh_result.out = <<>>
           ELSE l.items[1] >= num_classes
                => /\ oh_result.status = "raised"
                   /\ oh_result.error = AssertionError(BoundMessage)
                   /\ oh_result.built = i - 1
                   /\ oh_result.out = <<>>

\* C6 witness: after a valid label, a float label of two items raised the
\* dtype assertion
C6_Witness ==
    /\ Len(oh_data) = 2
    /\ IsValidLabel(oh_data[1], num_classes)
    /\ oh_data[2] = Label(DTypeFloat32, <<0, 0>>)
    /\ oh_result.status = "raised"
    /\ oh_result.error = AssertionError("")
    /\ oh_result.built = 1

(***************************************************************************)
(* Properties of F1AUCScores, under SpecTrace.                             *)
(***************************************************************************)
\* C3: a call of on_batch_end with true and predicted arrays whose element
\* counts differ raises an assertion error and leaves the accumulators y_true
\* and y_pred as they were before the call.
C3_MismatchLeavesAccumulators ==
    [][(tr_call'.name = "on_batch_end"
        /\ Size(tr_call'.y_true) # Size(tr_call'.y_pred))
       => /\ tr_err'.type = "AssertionError"
          /\ y_true' = y_true
          /\ y_pred' = y_pred]_vars

\* C3 witness: with samples accumulated, a call with arrays of different
\* element counts raised
C3_Witness ==
    /\ tr_call.name = "on_batch_end"
    /\ Size(tr_call.y_true) = 1
    /\ Size(tr_call.y_pred) = 2
    /\ tr_err.type = "AssertionError"
    /\ Len(y_true) = 2
    /\ Len(y_pred) = 2

(***************************************************************************)
(* Properties of the op lists, under SpecPipeline.                         *)
(***************************************************************************)
\* C4: in each example and each mode its pipeline has data for, the op that
\* is about to execute finds all of its input keys (an UpdateOp its loss key)
\* in the mapping, and no run stops on a missing key.
C4_InputsPresent ==
    /\ op_err = NoError
    /\ (example \in Examples /\ pc <= Len(Ops(example)))
       => LET op == Ops(example)[pc] IN
          (op.mode = None \/ op.mode = mode)
          => \A i \in 1..Len(op.inputs) : op.inputs[i] \in DOMAIN batch

\* C4 witness: an eval batch of ALOCC went through all ops, x_fake written by
\* the eval reconstruction
C4_Witness ==
    /\ example = "alocc_torch"
    /\ mode = "eval"
    /\ pc = Len(Ops(example)) + 1
    /\ batch["x_fake"].writer = 7
    /\ batch["dloss"].writer = 12
    /\ op_err = NoError

\* C5: the step that passes an op changes the mapping only at the output
\* keys of that op: they are overwritten or added, every other key keeps its
\* value, and an op skipped for its mode changes nothing; the LambdaOp of
\* ALOCC adds x_w_noise and leaves x unchanged.
C5_OnlyOutputsChange ==
    [][(example \in Examples /\ pc' = pc + 1)
       => LET op == Ops(example)[pc]
              runs == op.mode = None \/ op.mode = mode
              outs == IF runs THEN {op.outputs[i] : i \in 1..Len(op.outputs)} ELSE {}
          IN /\ DOMAIN batch' = (DOMAIN batch) \cup outs
             /\ \A k \in (DOMAIN batch) \ outs : batch'[k] = batch[k]
             /\ \A k \in outs : batch'[k] = [step |-> step, writer |-> pc]
             /\ ~runs => batch' = batch
             /\ (op.name = "LambdaOp" /\ runs)
                => /\ "x_w_noise" \notin DOMAIN batch
                   /\ "x_w_noise" \in DOMAIN batch'
                   /\ batch'["x"] = batch["x"]]_vars

\* C5 witness: in a train batch of ALOCC the LambdaOp has added x_w_noise
\* and x is still the value Normalize wrote
C5_Witness ==
    /\ example = "alocc_torch"
    /\ mode = "train"
    /\ pc = 4
    /\ "x_w_noise" \in DOMAIN batch
    /\ batch["x_w_noise"].writer = 3
    /\ batch["x"].writer = 2
    /\ batch["y"].writer = 0

(***************************************************************************)
(* Properties of latex_util, under SpecLatex.                              *)
(***************************************************************************)
Ellipsis == [kind |-> "NoEscape", v |-> <<"\\ldots">>]

Min(a, b) == IF a < b THEN a ELSE b

\* item stands for the element elem of data: the element itself, or for a
\* dict entry a list that starts with the key and ends with the value
ListsElement(item, elem, type) ==
    IF type \in {"dict", "OrderedDict"}
    THEN /\ item.kind = "ContainerList"
         /\ item.v[1] = elem[1]
         /\ item.v[Len(item.v)] = elem[2]
    ELSE item = elem

\* the number of ellipsis items of a list of items
EllipsisCount(items) ==
    Cardinality({i \in 1..Len(items) : items[i].kind = "NoEscape" /\ items[i] = Ellipsis})

\* C7: for a container of k elements and a positive truncate t, the list
\* holds the first min(k, t) elements in iteration order, followed by one
\* ellipsis item if and only if k > t; with truncate None it holds all k
\* elements and no ellipsis.
C7_Truncation ==
    (lx.class = "PyContainer"
     /\ (lx_args.truncate.is_none \/ lx_args.truncate.value > 0))
    => LET elems == lx_args.data.elems
           k == Len(elems)
           items == lx.data[2].v
           shown == IF lx_args.truncate.is_none THEN k
                    ELSE Min(k, lx_args.truncate.value)
           cut == ~lx_args.truncate.is_none /\ k > lx_args.truncate.value
       IN /\ Len(items) = shown + (IF cut THEN 1 ELSE 0)
          /\ \A i \in 1..shown : ListsElement(items[i], elems[i], lx_args.data.type)
          /\ EllipsisCount(items) = (IF cut THEN 1 ELSE 0)
          /\ cut => items[Len(items)] = Ellipsis

\* C7 witness: a set of three elements truncated to two: two elements and
\* the ellipsis
C7_Witness ==
    /\ lx.class = "PyContainer"
    /\ lx_args.data.type = "set"
    /\ Len(lx_args.data.elems) = 3
    /\ lx_args.truncate = [is_none |-> FALSE, value |-> 2]
    /\ Len(lx.data[2].v) = 3
    /\ lx.data[2].v[3] = Ellipsis

\* a step that runs the constructor of the class
Constructs(class) == lx_args.class = class /\ lx.class = "none" /\ lx_err = NoError

\* C9: the constructor of PyContainer raises an assertion error and builds
\* nothing for data that is no list, tuple, set or dict; else it encloses the
\* items in [ ] for a list, ( ) for a tuple and \{ \} for a set or dict, and
\* a dict entry is the list of its key, ': ' and its value.
C9_TypesAndBrackets ==
    [][Constructs("PyContainer")
       => LET type == lx_args.data.type
              elems == lx_args.data.elems
          IN IF type \notin {"list", "tuple", "set", "dict", "OrderedDict"}
             THEN /\ lx_err'.type = "AssertionError"
                  /\ lx' = [class |-> "none"]
             ELSE /\ lx_err' = lx_err
                  /\ lx'.class = "PyContainer"
                  /\ Len(lx'.data) = 3
                  /\ lx'.data[1].kind = "NoEscape"
                  /\ lx'.data[3].kind = "NoEscape"
                  /\ lx'.data[1].v = (IF type = "list" THEN <<"[">>
                                      ELSE IF type = "tuple" THEN <<"(">>
                                      ELSE <<"\\{">>)
                  /\ lx'.data[3].v = (IF type = "list" THEN <<"]">>
                                      ELSE IF type = "tuple" THEN <<")">>
                                      ELSE <<"\\}">>)
                  /\ type \in {"dict", "OrderedDict"}
                     => \A i \in 1..Len(lx'.data[2].v) :
                          \/ /\ lx'.data[2].v[i].kind = "NoEscape"
                             /\ lx'.data[2].v[i] = Ellipsis
                          \/ /\ i <= Len(elems)
                             /\ lx'.data[2].v[i] =
                                  [kind |-> "ContainerList",
                                   v |-> <<elems[i][1],
                                           [kind |-> "str", v |-> <<":", " ">>],
                                           elems[i][2]>>]]_vars

\* C9 witness: a frozenset was rejected with an assertion error and nothing
\* was built
C9_Witness ==
    /\ lx_args.class = "PyContainer"
    /\ lx_args.data.type = "frozenset"
    /\ lx_err.type = "AssertionError"
    /\ lx.class = "none"

\* C8: dumps returns the escaped text of str(data) inside \seqsplit{ } when
\* the length of str(data) is greater than threshold and the escaped text
\* alone when it is not; the constructor raises an assertion error for data
\* that is no str, int or float.
C8_WrapAboveThreshold ==
    [][/\ Constructs("WrapText")
          => IF lx_args.data.type \in {"str", "int", "float", "bool"}
             THEN lx'.class = "WrapText" /\ lx_err' = lx_err
             ELSE lx' = [class |-> "none"] /\ lx_err'.type = "AssertionError"
       /\ (lx.class = "WrapText" /\ wt_out = <<>>)
          => LET text == Str(lx_args.data)
                 out == wt_out'[1]
             IN /\ Len(wt_out') = 1
                /\ out.kind = "NoEscape"
                /\ IF Len(text) > lx_args.threshold
                   THEN out.v = <<"\\seqsplit{">> \o EscapeText(text) \o <<"}">>
                   ELSE out.v = EscapeText(text)]_vars

\* C8 witness: a text of three characters, one of them escaped, with
\* threshold three was dumped unwrapped
C8_Witness ==
    /\ lx.class = "WrapText"
    /\ lx_args.data.type = "str"
    /\ lx_args.data.text = <<"a", "-", "a">>
    /\ lx_args.threshold = 3
    /\ wt_out = <<[kind |-> "NoEscape", v |-> <<"a", "{-}", "a">>]>>

\* what C10 says of the items of a HrefFEID, with the first item of the
\* target given
HrefItemsAre(target) ==
    lx.class = "HrefFEID"
    => LET a == lx_args
           named == a.name # <<>>
           shown == IF a.bold_name
                    THEN <<"\\textbf{">> \o EscapeText(a.name) \o <<"}">>
                    ELSE EscapeText(a.name)
       IN lx.data =
            << [kind |-> "NoEscape", v |-> <<"\\hyperref[">>],
               [kind |-> "NoEscape", v |-> target],
               a.fe_id,
               [kind |-> "NoEscape", v |-> <<"]{\\textcolor{blue}{\\uline{">>] >>
            \o (IF a.id_in_name THEN <<a.fe_id>> ELSE <<>>)
            \o (IF a.id_in_name /\ named
                THEN <<[kind |-> "str", v |-> <<":", " ">>]>> ELSE <<>>)
            \o (IF named THEN <<[kind |-> "NoEscape", v |-> shown]>> ELSE <<>>)
            \o << [kind |-> "NoEscape", v |-> <<"}}}">>] >>

\* C10 as stated: the link text is the fe_id iff id_in_name, ': ' iff
\* id_in_name and a name, the escaped name (bold iff bold_name) iff a name,
\* between the opening whose target is link_prefix, ':' and fe_id, and the
\* closing.
C10_AsStated ==
    HrefItemsAre(IF lx.class = "HrefFEID" THEN lx_args.link_prefix \o <<":">> ELSE <<>>)

\* C10, amended: as stated, with the target the escaped text of link_prefix
\* and ':', and then fe_id.
C10_LinkText ==
    HrefItemsAre(IF lx.class = "HrefFEID"
                 THEN EscapeText(lx_args.link_prefix \o <<":">>) ELSE <<>>)

\* C10 witness: id, separator and bold escaped name after a prefix that is
\* escaped
C10_Witness ==
    /\ lx.class = "HrefFEID"
    /\ lx_args.id_in_name
    /\ lx_args.bold_name
    /\ lx_args.name = <<"a", "_", "b">>
    /\ lx_args.link_prefix = <<"f", "_">>
    /\ Len(lx.data) = 8
    /\ lx.data[2].v = <<"f", "\\_", ":">>
    /\ lx.data[7].v = <<"\\textbf{", "a", "\\_", "b", "}">>

(***************************************************************************)
(* The range of the labels of Onehot, under SpecOnehot.                    *)
(***************************************************************************)
\* C15, as stated: forward returns vectors only when every label c of the
\* batch has 0 <= c < num_classes; an integer label outside that range, a
\* negative one included, makes the call raise.
C15_AsStated ==
    \A i \in 1..Len(oh_data) :
        (/\ OnehotCalled
         /\ IsIntegerLabel(oh_data[i])
         /\ ~(0 <= oh_data[i].items[1] /\ oh_data[i].items[1] < num_classes))
        => oh_result.status = "raised"

(***************************************************************************)
(* The save directory of the BestModelSaver traces, under SpecPipeline.    *)
(***************************************************************************)
Savers == {i \in 1..Len(traces) : traces[i].name = "BestModelSaver"}

\* C16, as stated: in each of the three examples the estimator has two
\* BestModelSaver traces, and the directory argument of get_estimator,
\* whatever its value, is the save directory of both.
C16_AsStated ==
    example \in Examples
        => /\ Cardinality(Savers) = 2
           /\ \A i \in Savers : traces[i].save_dir = dir_arg

(***************************************************************************)
(* Properties of reshape, under SpecReshape.                               *)
(***************************************************************************)
ReshapeCalled == rs_out.status \in {"returned", "raised"}

\* C11: for a tensor of any of the three backends and a shape that holds as
\* many elements as the tensor, reshape returns a tensor of the same backend
\* whose shape is the requested shape and whose number of elements is that of
\* the input.
C11_ReshapeKeepsBackendAndCount ==
    (ReshapeCalled /\ rs_x.backend \in Backends /\ Prod(rs_shape) = NumElements(rs_x))
        => /\ rs_out.status = "returned"
           /\ rs_out.value.backend = rs_x.backend
           /\ rs_out.value.shape = rs_shape
           /\ NumElements(rs_out.value) = NumElements(rs_x)
           /\ Prod(rs_out.value.shape) = NumElements(rs_x)

\* test_reshape_tf_value: the 3x2 TensorFlow fixture reshaped to (2, 3)
C11_Witness ==
    /\ rs_x = test_tf
    /\ rs_shape = <<2, 3>>
    /\ rs_out.status = "returned"
    /\ rs_out.value.shape = <<2, 3>>
    /\ rs_out.value.backend = "tensorflow"
(***************************************************************************)
(* Properties of F1AUCScores.on_epoch_end, under SpecTrace.                *)
(***************************************************************************)
\* on_epoch_end was the last call and it returned
EpochEndReturned == tr_call.name = "on_epoch_end" /\ tr_err = NoError

\* the point i of the curve is the first of those where |1 - tpr - fpr| is
\* smallest
FirstSmallest(deviation, i) ==
    /\ \A j \in 1..Len(deviation) : deviation[i] <= deviation[j]
    /\ \A j \in 1..(i - 1) : deviation[j] > deviation[i]

\* C12: when on_epoch_end returns, the threshold it selected is the threshold
\* of the first of the points of the ROC curve (positive label 1) where
\* |1 - tpr - fpr| is smallest, the AUC of that curve is written under
\* outputs[0] and the F1 score under outputs[1].
C12_EerThresholdAndOutputs ==
    EpochEndReturned =>
        LET roc == roc_curve(y_true, y_pred, 1)
            deviation == AbsoluteDeviation(roc)
        IN  /\ ~IsNaN(roc)
            /\ \E i \in 1..Len(roc.thresholds) :
                    /\ FirstSmallest(deviation, i)
                    /\ tr_out.eer_threshold = roc.thresholds[i]
            /\ Len(tr_out.written) = 2
            /\ tr_out.written[1] = [key |-> "auc_score", value |-> auc(roc)]
            /\ tr_out.written[2] =
                    [key |-> "f1_score",
                     value |-> f1_score(y_true, tr_out.y_pred_class, 0)]

\* on_epoch_end returned on a curve where two points tie for the smallest
\* |1 - tpr - fpr|
C12_Witness ==
    /\ EpochEndReturned
    /\ LET roc == roc_curve(y_true, y_pred, 1)
           deviation == AbsoluteDeviation(roc)
       IN  \E i, j \in 1..Len(deviation) :
                /\ i < j
                /\ FirstSmallest(deviation, i)
                /\ deviation[j] = deviation[i]
                /\ tr_out.eer_threshold = roc.thresholds[i]
    /\ Len(tr_out.written) = 2

LogLabels == [i \in 1..Len(epoch_log.samples) |-> epoch_log.samples[i][1]]

LogScores == [i \in 1..Len(epoch_log.samples) |-> epoch_log.samples[i][2]]

\* C14: what on_epoch_end writes (and whether it raises) is what the labels
\* and scores given to on_batch_end since the latest on_epoch_begin, paired
\* sample by sample in arrival order, give: no sample of an earlier epoch
\* contributes.
C14_OnlyCurrentEpoch ==
    tr_call.name = "on_epoch_end" =>
        /\ tr_out = EpochEnd(LogLabels, LogScores).out
        /\ tr_err = EpochEnd(LogLabels, LogScores).error

\* on_epoch_end wrote the two scores in an epoch that follows one with samples
C14_Witness ==
    /\ EpochEndReturned
    /\ epoch_log.earlier
    /\ Len(epoch_log.samples) >= 2
    /\ Len(tr_out.written) = 2
====
